---- MODULE Spec2Model ----
(* Model of pkg/security/probe/process_resolver_bpf.go: the process        *)
(* resolver's userspace cache, the pid_cookie -> proc_cache kernel chain,  *)
(* and the Snapshot() bootstrap with its fixed-point retry loop.           *)
EXTENDS Integers, FiniteSets, Sequences, TLC

(* ------------------------------ bounds ------------------------------- *)
MaxPid == 5
MaxCookie == 5
MaxEventPid == 2
MaxEventCookie == 2

(* --------------------------- program constants ----------------------- *)
MaxRetry == 5

Pids == 1..MaxPid
EventPids == 1..MaxEventPid
Cookies == 1..MaxCookie

dentryPathKeyNotFound == "<not found>"

(* ------------------------- partial-map helpers ----------------------- *)
Put(m, k, v) == [x \in (DOMAIN m) \cup {k} |-> IF x = k THEN v ELSE m[x]]
Del(m, k) == [x \in (DOMAIN m) \ {k} |-> m[x]]
EmptyMap == [x \in {} |-> 0]

(* Table.SetP(key, value): the kernel table's "set", which creates the key *)
(* or replaces its value                                                   *)
SetP(m, k, v) == Put(m, k, v)

(* ------------------------- the world outside ------------------------- *)
ExePath(pid) == IF pid % 2 = 1 THEN "/bin/a" ELSE "/bin/b"
ExeInode(pid) == IF pid <= 2 THEN 1 ELSE 2
ContainerID(pid) == IF pid = 1 THEN "" ELSE "cid"
NumLower(ino) == IF ino = 1 THEN 2 ELSE 0
BootTime == 100

(* FileEvent.ResolveInode when the dentry resolver knows the file *)
DentryPath(fe) == IF fe = 1 THEN "/bin/a" ELSE IF fe = 2 THEN "/bin/b" ELSE "/"
ResolveMonotonicTimestamp(raw) == BootTime + raw

ZeroEntry == [PathnameStr |-> "", Timestamp |-> 0]
NoRet == [op |-> "none", pid |-> 0, ok |-> FALSE, entry |-> ZeroEntry, reads |-> 0,
          dentry |-> "", fail |-> "", sync |-> "", err |-> ""]
NoCur == [pid |-> 0]

VARIABLES
  faults,            \* the collaborators of the resolver may fail
  tables,            \* names registered in the probe's kernel-table registry
  procCacheMap,      \* p.procCacheMap # nil
  pidCookieMap,      \* p.pidCookieMap # nil
  inodeNumlowerMap,  \* p.inodeNumlowerMap # nil
  entryCache,        \* p.entryCache: pid -> ProcessResolverEntry
  pidCookie,         \* kernel table pid_cookie: pid -> cookie
  procCache,         \* kernel table proc_cache: cookie -> ProcCacheEntry
  inodeNumlower,     \* kernel table inode_numlower: inode -> numlower
  cookies,           \* cookie generator: the cookies it has not handed out yet
  live,              \* /proc: pid -> "exe" | "expired"
  kprobeActive,      \* the getattr kprobe is registered
  pc,                \* position of the running Snapshot() call
  retry,             \* loop variable of Snapshot()
  processes,         \* enumerated processes the pass has still to visit
  cacheModified,     \* local of snapshot()
  cur,               \* locals of the running snapshotProcess() call
  ret,               \* what the step just taken returned
  hist               \* observations on the Snapshot() call running or just returned

vars == <<faults, tables, procCacheMap, pidCookieMap, inodeNumlowerMap, entryCache,
          pidCookie, procCache, inodeNumlower, cookies, live, kprobeActive,
          pc, retry, processes, cacheModified, cur, ret, hist>>

kernelVars == <<pidCookie, procCache, inodeNumlower, cookies>>
handleVars == <<faults, tables, procCacheMap, pidCookieMap, inodeNumlowerMap>>
frameVars == <<pc, retry, processes, cacheModified, cur, kprobeActive>>

NoHist == [calls |-> 0,        \* Snapshot() calls observed
           passes |-> 0,       \* attempts completed
           tried |-> FALSE,    \* this attempt ran the steps for an unregistered pid
           inserted |-> FALSE, \* this attempt wrote a pid_cookie entry
           zero |-> FALSE,     \* some attempt wrote no pid_cookie entry
           clean |-> FALSE,    \* some attempt enumerated and wrote no pid_cookie entry
           enumOk |-> TRUE,    \* every enumeration succeeded
           before |-> FALSE,   \* an attempt that enumerated the processes is over
           ideal |-> FALSE,    \* tables empty at the call, no fork or exec since, no step failed
           unreg |-> 0]        \* UnregisterKprobe calls

(* utils.NewCookie(): a cookie never handed out before *)
NewCookie == CHOOSE c \in cookies : \A d \in cookies : c <= d

(* NewProcessResolver *)
Fresh ==
  /\ procCacheMap = FALSE
  /\ pidCookieMap = FALSE
  /\ inodeNumlowerMap = FALSE
  /\ entryCache = EmptyMap
  /\ pidCookie = EmptyMap
  /\ procCache = EmptyMap
  /\ inodeNumlower = EmptyMap
  /\ live = EmptyMap
  /\ kprobeActive = FALSE
  /\ pc = "idle"
  /\ retry = 0
  /\ processes = {}
  /\ cacheModified = FALSE
  /\ cur = NoCur
  /\ ret = NoRet
  /\ hist = NoHist

(* The resolver among collaborators that may fail, over a small process   *)
(* table.                                                                  *)
Init ==
  /\ Fresh
  /\ faults = TRUE
  /\ tables \in SUBSET {"proc_cache", "pid_cookie"}
  /\ cookies = 1..MaxEventCookie

(* The bootstrap among healthy collaborators, over a process table that    *)
(* keeps growing.                                                          *)
InitBoot ==
  /\ Fresh
  /\ faults = FALSE
  /\ tables = {"proc_cache", "pid_cookie"}
  /\ cookies = 1..MaxCookie

(* The outcomes a collaborator's call can have *)
Outcomes(all, good) == IF faults THEN all ELSE good

(* Environment changes seen by a running Snapshot() call *)
Disturbed == IF pc = "idle" THEN NoHist ELSE [hist EXCEPT !.ideal = FALSE]

(* ---------------------------- event path ----------------------------- *)
InputEntries == {[PathnameStr |-> "/bin/x", Timestamp |-> 7],
                 [PathnameStr |-> "/bin/y", Timestamp |-> 8]}

AddEntryIfAbsent(pid, entry) ==
  /\ pc = "idle"
  /\ entryCache' = IF pid \in DOMAIN entryCache THEN entryCache
                   ELSE Put(entryCache, pid, entry)
  /\ ret' = [NoRet EXCEPT !.op = "AddEntry", !.pid = pid, !.entry = entry]
  /\ hist' = NoHist
  /\ UNCHANGED <<kernelVars, handleVars, frameVars, live>>

(* AddEntry(), lines 46-48 *)
AddEntry(pid, entry) ==
  /\ pc = "idle"
  /\ entryCache' = Put(entryCache, pid, entry)
  /\ ret' = [NoRet EXCEPT !.op = "AddEntry", !.pid = pid, !.entry = entry]
  /\ hist' = NoHist
  /\ UNCHANGED <<kernelVars, handleVars, frameVars, live>>

DelEntryCacheOnly(pid) ==
  /\ pc = "idle"
  /\ pidCookieMap
  /\ entryCache' = Del(entryCache, pid)
  /\ ret' = [NoRet EXCEPT !.op = "DelEntry", !.pid = pid]
  /\ hist' = NoHist
  /\ UNCHANGED <<pidCookie, procCache, inodeNumlower, cookies, handleVars, frameVars, live>>

DelEntryReclaims(pid) ==
  /\ pc = "idle"
  /\ pidCookieMap
  /\ entryCache' = Del(entryCache, pid)
  /\ pidCookie' = Del(pidCookie, pid)
  /\ procCache' = IF pid \in DOMAIN pidCookie THEN Del(procCache, pidCookie[pid])
                  ELSE procCache
  /\ ret' = [NoRet EXCEPT !.op = "DelEntry", !.pid = pid]
  /\ hist' = NoHist
  /\ UNCHANGED <<inodeNumlower, cookies, handleVars, frameVars, live>>

(* DelEntry(), lines 51-58 *)
DelEntry(pid) ==
  /\ pc = "idle"
  /\ pidCookieMap
  /\ entryCache' = Del(entryCache, pid)
  /\ pidCookie' = Del(pidCookie, pid)
  /\ ret' = [NoRet EXCEPT !.op = "DelEntry", !.pid = pid]
  /\ hist' = NoHist
  /\ UNCHANGED <<procCache, inodeNumlower, cookies, handleVars, frameVars, live>>

resolveRawTimestamp(pid, dentry) ==
  IF pid \notin DOMAIN pidCookie
    THEN [NoRet EXCEPT !.op = "Resolve", !.pid = pid, !.reads = 1]
  ELSE IF pidCookie[pid] \notin DOMAIN procCache
    THEN [NoRet EXCEPT !.op = "Resolve", !.pid = pid, !.reads = 2]
  ELSE IF procCache[pidCookie[pid]].short
    THEN [NoRet EXCEPT !.op = "Resolve", !.pid = pid, !.reads = 2]
  ELSE IF dentry = dentryPathKeyNotFound
    THEN [NoRet EXCEPT !.op = "Resolve", !.pid = pid, !.reads = 2, !.dentry = dentry]
  ELSE [op |-> "Resolve", pid |-> pid, ok |-> TRUE,
        entry |-> [PathnameStr |-> dentry,
                   Timestamp |-> procCache[pidCookie[pid]].timestampRaw],
        reads |-> 2, dentry |-> dentry, fail |-> "", sync |-> "", err |-> ""]

(* resolve(): the kernel fallback. dentry is the path resolver's answer,   *)
(* consulted only when the chain was read and decoded.                     *)
resolve(pid, dentry) ==
  IF pid \notin DOMAIN pidCookie
    THEN [NoRet EXCEPT !.op = "Resolve", !.pid = pid, !.reads = 1]
  ELSE IF pidCookie[pid] \notin DOMAIN procCache
    THEN [NoRet EXCEPT !.op = "Resolve", !.pid = pid, !.reads = 2]
  ELSE IF procCache[pidCookie[pid]].short
    THEN [NoRet EXCEPT !.op = "Resolve", !.pid = pid, !.reads = 2]
  ELSE IF dentry = dentryPathKeyNotFound
    THEN [NoRet EXCEPT !.op = "Resolve", !.pid = pid, !.reads = 2, !.dentry = dentry]
  ELSE [op |-> "Resolve", pid |-> pid, ok |-> TRUE,
        entry |-> [PathnameStr |-> dentry,
                   Timestamp |-> ResolveMonotonicTimestamp(procCache[pidCookie[pid]].timestampRaw)],
        reads |-> 2, dentry |-> dentry, fail |-> "", sync |-> "", err |-> ""]

ResolveCachesAbsent(pid) ==
  /\ pc = "idle"
  /\ IF pid \in DOMAIN entryCache
       THEN /\ ret' = [NoRet EXCEPT !.op = "Resolve", !.pid = pid, !.ok = TRUE,
                                    !.entry = entryCache[pid]]
            /\ UNCHANGED entryCache
       ELSE /\ pidCookieMap /\ procCacheMap
            /\ \E found \in Outcomes(BOOLEAN, {TRUE}) :
                 LET fe == IF pid \in DOMAIN pidCookie /\ pidCookie[pid] \in DOMAIN procCache
                             THEN procCache[pidCookie[pid]].fileEvent ELSE 0
                     r == resolve(pid, IF found THEN DentryPath(fe) ELSE dentryPathKeyNotFound)
                 IN /\ ret' = r
                    /\ entryCache' = Put(entryCache, pid, r.entry)
  /\ hist' = NoHist
  /\ UNCHANGED <<kernelVars, handleVars, frameVars, live>>

(* Resolve(), lines 96-104: the userspace cache first, then resolve() *)
Resolve(pid) ==
  /\ pc = "idle"
  /\ IF pid \in DOMAIN entryCache
       THEN /\ ret' = [NoRet EXCEPT !.op = "Resolve", !.pid = pid, !.ok = TRUE,
                                    !.entry = entryCache[pid]]
            /\ UNCHANGED entryCache
       ELSE /\ pidCookieMap /\ procCacheMap
            /\ \E found \in Outcomes(BOOLEAN, {TRUE}) :
                 LET fe == IF pid \in DOMAIN pidCookie /\ pidCookie[pid] \in DOMAIN procCache
                             THEN procCache[pidCookie[pid]].fileEvent ELSE 0
                     r == resolve(pid, IF found THEN DentryPath(fe) ELSE dentryPathKeyNotFound)
                 IN /\ ret' = r
                    /\ entryCache' = IF r.ok THEN Put(entryCache, pid, r.entry) ELSE entryCache
  /\ hist' = NoHist
  /\ UNCHANGED <<kernelVars, handleVars, frameVars, live>>

StartResetsCache ==
  /\ pc = "idle"
  /\ procCacheMap' = ("proc_cache" \in tables)
  /\ pidCookieMap' = IF "proc_cache" \in tables THEN ("pid_cookie" \in tables) ELSE pidCookieMap
  /\ entryCache' = EmptyMap
  /\ ret' = [NoRet EXCEPT !.op = "Start",
                          !.ok = ("proc_cache" \in tables /\ "pid_cookie" \in tables)]
  /\ hist' = NoHist
  /\ UNCHANGED <<faults, tables, inodeNumlowerMap, kernelVars, frameVars, live>>

StartProcCacheOnly ==
  /\ pc = "idle"
  /\ procCacheMap' = ("proc_cache" \in tables)
  /\ pidCookieMap' = IF "proc_cache" \in tables THEN ("pid_cookie" \in tables) ELSE pidCookieMap
  /\ ret' = [NoRet EXCEPT !.op = "Start", !.ok = ("proc_cache" \in tables)]
  /\ hist' = NoHist
  /\ UNCHANGED <<faults, tables, inodeNumlowerMap, entryCache, kernelVars, frameVars, live>>

(* Start(), lines 107-121 *)
Start ==
  /\ pc = "idle"
  /\ procCacheMap' = ("proc_cache" \in tables)
  /\ pidCookieMap' = IF "proc_cache" \in tables THEN ("pid_cookie" \in tables) ELSE pidCookieMap
  /\ ret' = [NoRet EXCEPT !.op = "Start",
                          !.ok = ("proc_cache" \in tables /\ "pid_cookie" \in tables)]
  /\ hist' = NoHist
  /\ UNCHANGED <<faults, tables, inodeNumlowerMap, entryCache, kernelVars, frameVars, live>>

(* --------------------------- environment ----------------------------- *)
(* A process appears in /proc; pids are handed out in increasing order.    *)
ProcStart(pid) ==
  /\ pid \notin DOMAIN live
  /\ \A q \in Pids : q < pid => q \in DOMAIN live
  /\ \E exe \in {"", ExePath(pid)} : live' = Put(live, pid, exe)
  /\ hist' = Disturbed
  /\ ret' = NoRet
  /\ UNCHANGED <<kernelVars, handleVars, frameVars, entryCache>>

(* The kernel-side instrumentation registers an exec of pid: cache entry   *)
(* first, then the pid -> cookie pointer.                                  *)
KernelEntry(pid, short) ==
  [containerID |-> ContainerID(pid), inode |-> ExeInode(pid),
   numlower |-> NumLower(ExeInode(pid)), fileEvent |-> ExeInode(pid),
   timestampRaw |-> 10 * pid, short |-> short]

KernelExec(pid) ==
  /\ pid \in DOMAIN live
  /\ pid \notin DOMAIN pidCookie
  /\ cookies # {}
  /\ \E short \in Outcomes(BOOLEAN, {FALSE}) : procCache' = Put(procCache, NewCookie, KernelEntry(pid, short))
  /\ pidCookie' = Put(pidCookie, pid, NewCookie)
  /\ cookies' = cookies \ {NewCookie}
  /\ hist' = Disturbed
  /\ ret' = NoRet
  /\ UNCHANGED <<inodeNumlower, handleVars, frameVars, entryCache, live>>

(* ----------------------------- Snapshot ------------------------------ *)
(* Snapshot(), lines 234-262: table registration, binding, probe           *)
(* activation; the deferred unregister is installed only after these.      *)
Snapshot ==
  /\ pc = "idle"
  /\ procCacheMap /\ pidCookieMap
  /\ \E setup \in Outcomes({"register", "table", "kprobe", "ok"}, {"ok"}) :
       /\ tables' = IF setup \in {"kprobe", "ok"} THEN tables \cup {"inode_numlower"} ELSE tables
       /\ inodeNumlowerMap' = IF setup = "register" THEN inodeNumlowerMap
                              ELSE ("inode_numlower" \in tables')
       /\ setup = "table" => "inode_numlower" \notin tables
       /\ kprobeActive' = (setup = "ok")
       /\ pc' = IF setup = "ok" THEN "enumerate" ELSE "idle"
       /\ ret' = [NoRet EXCEPT !.op = IF setup = "ok" THEN "setup" ELSE "Snapshot",
                               !.err = IF setup = "ok" THEN "" ELSE setup]
  /\ hist' = [NoHist EXCEPT !.calls = 1,
                            !.ideal = (DOMAIN pidCookie = {} /\ DOMAIN procCache = {})]
  /\ UNCHANGED <<faults, retry, processes, cacheModified, cur, procCacheMap, pidCookieMap,
                 entryCache, kernelVars, live>>

ReturnLeavingProbe(err, h) ==
  /\ pc' = "idle"
  /\ retry' = 0
  /\ kprobeActive' = kprobeActive
  /\ hist' = h
  /\ ret' = [NoRet EXCEPT !.op = "Snapshot", !.err = err]

(* Snapshot() returns err, running the deferred UnregisterKprobe of lines  *)
(* 256-262 on its way out; the locals of the call are gone.                *)
Return(err, h) ==
  /\ pc' = "idle"
  /\ retry' = 0
  /\ kprobeActive' = FALSE
  /\ hist' = [h EXCEPT !.unreg = @ + 1]
  /\ ret' = [NoRet EXCEPT !.op = "Snapshot", !.err = err]

EndAttemptFour(converged, enumerated) ==
  LET h == [hist EXCEPT !.passes = @ + 1,
                        !.zero = @ \/ ~hist.inserted,
                        !.clean = @ \/ (enumerated /\ ~hist.inserted),
                        !.enumOk = @ /\ enumerated,
                        !.before = @ \/ enumerated,
                        !.tried = FALSE,
                        !.inserted = FALSE]
  IN IF converged
       THEN Return("nil", h)
       ELSE IF retry + 1 < MaxRetry - 1
              THEN /\ retry' = retry + 1
                   /\ pc' = "enumerate"
                   /\ hist' = h
                   /\ ret' = [NoRet EXCEPT !.op = "snapshot", !.err = "retry"]
                   /\ UNCHANGED kprobeActive
              ELSE Return("unable to snapshot processes", h)

(* One attempt is over: the retry++ of the loop at line 264, and on exit   *)
(* the return with the deferred UnregisterKprobe of lines 256-262.         *)
EndAttempt(converged, enumerated) ==
  LET h == [hist EXCEPT !.passes = @ + 1,
                        !.zero = @ \/ ~hist.inserted,
                        !.clean = @ \/ (enumerated /\ ~hist.inserted),
                        !.enumOk = @ /\ enumerated,
                        !.before = @ \/ enumerated,
                        !.tried = FALSE,
                        !.inserted = FALSE]
  IN IF converged
       THEN Return("nil", h)
       ELSE IF retry + 1 < MaxRetry
              THEN /\ retry' = retry + 1
                   /\ pc' = "enumerate"
                   /\ hist' = h
                   /\ ret' = [NoRet EXCEPT !.op = "snapshot", !.err = "retry"]
                   /\ UNCHANGED kprobeActive
              ELSE Return("unable to snapshot processes", h)

(* snapshot(), lines 124-129: enumerate the processes *)
snapshot ==
  /\ pc = "enumerate"
  /\ \E enumerated \in Outcomes(BOOLEAN, {TRUE}) :
       IF enumerated
         THEN /\ processes' = {[Pid |-> pid, Exe |-> live[pid]] : pid \in DOMAIN live}
              /\ cacheModified' = FALSE
              /\ pc' = "loop"
              /\ ret' = [NoRet EXCEPT !.op = "enumerate"]
              /\ UNCHANGED <<retry, kprobeActive, hist>>
         ELSE /\ EndAttempt(FALSE, FALSE)
              /\ UNCHANGED <<processes, cacheModified>>
  /\ UNCHANGED <<cur, entryCache, kernelVars, handleVars, live>>

snapshotSkipModifies(proc) ==
  /\ pc = "loop"
  /\ proc \in processes
  /\ proc.Exe = ""
  /\ processes' = processes \ {proc}
  /\ cacheModified' = TRUE
  /\ ret' = [NoRet EXCEPT !.op = "skip", !.pid = proc.Pid]
  /\ UNCHANGED <<pc, retry, cur, kprobeActive,
                 entryCache, kernelVars, handleVars, live, hist>>

(* snapshot(), lines 133-135: a process without Exe is passed over *)
snapshotSkip(proc) ==
  /\ pc = "loop"
  /\ proc \in processes
  /\ proc.Exe = ""
  /\ processes' = processes \ {proc}
  /\ ret' = [NoRet EXCEPT !.op = "skip", !.pid = proc.Pid]
  /\ UNCHANGED <<pc, retry, cacheModified, cur, kprobeActive,
                 entryCache, kernelVars, handleVars, live, hist>>

SnapshotEntry(pid) ==
  [containerID |-> ContainerID(pid), inode |-> ExeInode(pid),
   numlower |-> NumLower(ExeInode(pid)), fileEvent |-> 0,
   timestampRaw |-> 0, short |-> FALSE]

RegisteredNever(pid) == FALSE

(* snapshotProcess(), line 162: pidCookieMap.Get(pidb) finds an entry *)
Registered(pid) == pid \in DOMAIN pidCookie

ReturnedUnnoticed(pid, b, fail, sync) ==
  /\ ret' = [NoRet EXCEPT !.op = "snapshotProcess", !.pid = pid, !.ok = b,
                          !.fail = fail, !.sync = sync]
  /\ cacheModified' = cacheModified
  /\ cur' = NoCur
  /\ pc' = "loop"

(* snapshotProcess() returns b to the loop of snapshot(), lines 138-140 *)
Returned(pid, b, fail, sync) ==
  /\ ret' = [NoRet EXCEPT !.op = "snapshotProcess", !.pid = pid, !.ok = b,
                          !.fail = fail, !.sync = sync]
  /\ cacheModified' = (cacheModified \/ b)
  /\ cur' = NoCur
  /\ pc' = "loop"

AbortsOnAnyError(sync) == sync # "ok"

(* snapshotProcess(), lines 167-173: an error of SyncCache ends the step   *)
(* unless os.IsNotExist(err)                                               *)
Aborts(sync) == sync = "err"

(* snapshotProcess(), lines 155-218: everything up to the fresh cookie *)
snapshotProcess(proc) ==
  /\ pc = "loop"
  /\ proc \in processes
  /\ proc.Exe # ""
  /\ Registered(proc.Pid) \/ cookies # {}
  /\ processes' = processes \ {proc}
  /\ LET pid == proc.Pid
         ino == ExeInode(pid)
     IN IF Registered(pid)
          THEN /\ Returned(pid, FALSE, "exists", "")
               /\ UNCHANGED <<entryCache, inodeNumlower, cookies, hist>>
          ELSE \E fail \in Outcomes({"none", "sync", "cid", "readlink", "stat"}, {"none"}),
                  enoent \in Outcomes(BOOLEAN, {FALSE}), fired \in Outcomes(BOOLEAN, {TRUE}) :
                 LET sync == IF fail = "sync" THEN "err" ELSE IF enoent THEN "enoent" ELSE "ok"
                     step == IF Aborts(sync) THEN "sync" ELSE fail
                     linked == step \notin {"sync", "cid", "readlink"}
                     inl == IF step = "none" /\ fired /\ kprobeActive
                              THEN Put(inodeNumlower, ino, NumLower(ino))
                              ELSE inodeNumlower
                     reason == IF step # "none" THEN step
                               ELSE IF ino \notin DOMAIN inl THEN "numlower" ELSE "none"
                 IN /\ entryCache' = IF linked
                                       THEN Put(entryCache, pid,
                                                [PathnameStr |-> ExePath(pid), Timestamp |-> 0])
                                       ELSE entryCache
                    /\ inodeNumlower' = inl
                    /\ IF reason = "none"
                         THEN /\ cur' = [pid |-> pid, cookie |-> NewCookie,
                                         entry |-> SnapshotEntry(pid), sync |-> sync]
                              /\ cookies' = cookies \ {NewCookie}
                              /\ pc' = "insertCache"
                              /\ ret' = NoRet
                              /\ hist' = [hist EXCEPT !.tried = TRUE]
                              /\ UNCHANGED cacheModified
                         ELSE /\ Returned(pid, FALSE, reason, sync)
                              /\ hist' = [hist EXCEPT !.ideal = FALSE, !.tried = TRUE]
                              /\ UNCHANGED cookies
  /\ UNCHANGED <<retry, kprobeActive, pidCookie, procCache, handleVars, live>>

snapshotProcessInsertCookieFirst ==
  /\ pc = "insertCache"
  /\ pidCookie' = SetP(pidCookie, cur.pid, cur.cookie)
  /\ pc' = "insertCookie"
  /\ ret' = NoRet
  /\ UNCHANGED <<cur, cacheModified, hist, procCache>>
  /\ UNCHANGED <<retry, processes, kprobeActive, entryCache,
                 inodeNumlower, cookies, handleVars, live>>

snapshotProcessInsertCacheRollsBack ==
  /\ pc = "insertCache"
  /\ \E inserted \in Outcomes(BOOLEAN, {TRUE}) :
       IF inserted
         THEN /\ procCache' = SetP(procCache, cur.cookie, cur.entry)
              /\ pc' = "insertCookie"
              /\ ret' = NoRet
              /\ UNCHANGED <<cur, cacheModified, hist, entryCache>>
         ELSE /\ Returned(cur.pid, FALSE, "cache", cur.sync)
              /\ hist' = [hist EXCEPT !.ideal = FALSE]
              /\ entryCache' = Del(entryCache, cur.pid)
              /\ UNCHANGED procCache
  /\ UNCHANGED <<retry, processes, kprobeActive,
                 pidCookie, inodeNumlower, cookies, handleVars, live>>

(* snapshotProcess(), lines 221-224: procCacheMap.SetP(cookieb, entry.Bytes()) *)
snapshotProcessInsertCache ==
  /\ pc = "insertCache"
  /\ \E inserted \in Outcomes(BOOLEAN, {TRUE}) :
       IF inserted
         THEN /\ procCache' = SetP(procCache, cur.cookie, cur.entry)
              /\ pc' = "insertCookie"
              /\ ret' = NoRet
              /\ UNCHANGED <<cur, cacheModified, hist>>
         ELSE /\ Returned(cur.pid, FALSE, "cache", cur.sync)
              /\ hist' = [hist EXCEPT !.ideal = FALSE]
              /\ UNCHANGED procCache
  /\ UNCHANGED <<retry, processes, kprobeActive, entryCache,
                 pidCookie, inodeNumlower, cookies, handleVars, live>>

snapshotProcessInsertCookieLost ==
  /\ pc = "insertCookie"
  /\ Returned(cur.pid, TRUE, "", cur.sync)
  /\ hist' = [hist EXCEPT !.inserted = TRUE]
  /\ UNCHANGED <<retry, processes, kprobeActive, entryCache, pidCookie,
                 procCache, inodeNumlower, cookies, handleVars, live>>

snapshotProcessInsertCookieCounted ==
  /\ pc = "insertCookie"
  /\ \E inserted \in Outcomes(BOOLEAN, {TRUE}) :
       IF inserted
         THEN /\ pidCookie' = SetP(pidCookie, cur.pid, cur.cookie)
              /\ Returned(cur.pid, TRUE, "", cur.sync)
              /\ hist' = [hist EXCEPT !.inserted = TRUE]
         ELSE /\ Returned(cur.pid, TRUE, "cookie", cur.sync)
              /\ hist' = [hist EXCEPT !.ideal = FALSE]
              /\ UNCHANGED pidCookie
  /\ UNCHANGED <<retry, processes, kprobeActive, entryCache,
                 procCache, inodeNumlower, cookies, handleVars, live>>

snapshotProcessInsertCookieRollsBack ==
  /\ pc = "insertCookie"
  /\ \E inserted \in Outcomes(BOOLEAN, {TRUE}) :
       IF inserted
         THEN /\ pidCookie' = SetP(pidCookie, cur.pid, cur.cookie)
              /\ Returned(cur.pid, TRUE, "", cur.sync)
              /\ hist' = [hist EXCEPT !.inserted = TRUE]
              /\ UNCHANGED procCache
         ELSE /\ Returned(cur.pid, FALSE, "cookie", cur.sync)
              /\ hist' = [hist EXCEPT !.ideal = FALSE]
              /\ procCache' = Del(procCache, cur.cookie)
              /\ UNCHANGED pidCookie
  /\ UNCHANGED <<retry, processes, kprobeActive, entryCache,
                 inodeNumlower, cookies, handleVars, live>>

(* snapshotProcess(), lines 225-230: pidCookieMap.SetP(pidb, cookieb) *)
snapshotProcessInsertCookie ==
  /\ pc = "insertCookie"
  /\ \E inserted \in Outcomes(BOOLEAN, {TRUE}) :
       IF inserted
         THEN /\ pidCookie' = SetP(pidCookie, cur.pid, cur.cookie)
              /\ Returned(cur.pid, TRUE, "", cur.sync)
              /\ hist' = [hist EXCEPT !.inserted = TRUE]
         ELSE /\ Returned(cur.pid, FALSE, "cookie", cur.sync)
              /\ hist' = [hist EXCEPT !.ideal = FALSE]
              /\ UNCHANGED pidCookie
  /\ UNCHANGED <<retry, processes, kprobeActive, entryCache,
                 procCache, inodeNumlower, cookies, handleVars, live>>

(* snapshot(), lines 146-150, and the loop of Snapshot(), lines 264-270 *)
snapshotEnd ==
  /\ pc = "loop"
  /\ processes = {}
  /\ EndAttempt(~cacheModified, TRUE)
  /\ cacheModified' = FALSE
  /\ UNCHANGED <<processes, cur, entryCache, kernelVars, handleVars, live>>

Next ==
  \/ Start
  \/ \E pid \in EventPids, entry \in InputEntries : AddEntry(pid, entry)
  \/ \E pid \in EventPids : DelEntry(pid)
  \/ \E pid \in EventPids : Resolve(pid)
  \/ \E pid \in EventPids : ProcStart(pid)
  \/ \E pid \in EventPids : KernelExec(pid)
  \/ Snapshot
  \/ snapshot
  \/ \E proc \in processes : snapshotSkip(proc)
  \/ \E proc \in processes : snapshotProcess(proc)
  \/ snapshotProcessInsertCache
  \/ snapshotProcessInsertCookie
  \/ snapshotEnd

Spec == Init /\ [][Next]_vars

(* Start() and Snapshot() before any event is dispatched *)
NextBoot ==
  \/ Start
  \/ \E pid \in Pids : ProcStart(pid)
  \/ Snapshot
  \/ snapshot
  \/ \E proc \in processes : snapshotSkip(proc)
  \/ \E proc \in processes : snapshotProcess(proc)
  \/ snapshotProcessInsertCache
  \/ snapshotProcessInsertCookie
  \/ snapshotEnd

SpecBoot == InitBoot /\ [][NextBoot]_vars

TypeOK ==
  /\ pc \in {"idle", "enumerate", "loop", "insertCache", "insertCookie"}
  /\ retry \in 0..MaxRetry
  /\ DOMAIN pidCookie \subseteq Pids
  /\ cookies \subseteq Cookies
  /\ \A pid \in DOMAIN pidCookie : pidCookie[pid] \in Cookies

(* ============================== claims =============================== *)
SetupErrors == {"register", "table", "kprobe"}
Unable == "unable to snapshot processes"
Returns == ret.op = "Snapshot"
LoopReturns == Returns /\ ret.err \notin SetupErrors

(* C1: never-dangling cookie. In every reachable state, every entry of     *)
(* pid_cookie names a cookie that has an entry in proc_cache, also between *)
(* the two inserts of the publish step.                                    *)
C1_NeverDangling == \A pid \in DOMAIN pidCookie : pidCookie[pid] \in DOMAIN procCache

C1_Witness ==
  /\ ret.op = "snapshotProcess" /\ ret.ok
  /\ ret.pid \in DOMAIN pidCookie
  /\ procCache[pidCookie[ret.pid]] = SnapshotEntry(ret.pid)

(* C2: non-convergence bound. A Snapshot() call that got past its setup    *)
(* and whose every attempt wrote an entry has run exactly MaxRetry (5)     *)
(* attempts and returns the "unable to snapshot" error; no call ever runs  *)
(* more than 5 attempts.                                                   *)
C2_FiveAttempts ==
  /\ hist.passes <= MaxRetry
  /\ (LoopReturns /\ ~hist.zero) => (hist.passes = MaxRetry /\ ret.err = Unable)

C2_Witness == LoopReturns /\ ~hist.zero /\ hist.passes = MaxRetry /\ ret.err = Unable

AllRegistered == \A pid \in DOMAIN live : live[pid] # "" => pid \in DOMAIN pidCookie

(* C3 as stated: with a static process set, empty kernel tables at the     *)
(* call and every per-pid step succeeding, the first attempt registers     *)
(* every process that has an exe path, a further attempt inserts nothing   *)
(* and the call succeeds.                                                  *)
C3_Original ==
  (hist.ideal /\ hist.passes >= 1) =>
     /\ AllRegistered
     /\ ~hist.inserted
     /\ hist.passes <= 2
     /\ (Returns => ret.err = "nil")

(* C3 amended: the same premises, with the enumeration of the processes   *)
(* allowed to fail. An attempt whose enumeration fails inserts nothing and *)
(* is retried like any attempt that did not converge, so as long as no     *)
(* attempt has enumerated pid_cookie is as empty as at the call. When the  *)
(* first attempt that enumerates is over every process that has an exe     *)
(* path is registered, and no later attempt inserts or marks the cache     *)
(* modified; a later attempt that enumerates is the last one and the call  *)
(* succeeds on it. The call fails only with the fifth attempt used up, an  *)
(* enumeration having failed.                                              *)
C3_Convergence ==
  /\ [](hist.ideal =>
         /\ hist.before => (AllRegistered /\ ~hist.inserted /\ ~cacheModified)
         /\ (~hist.before /\ pc \in {"enumerate", "idle"}) => DOMAIN pidCookie = {}
         /\ LoopReturns =>
              \/ ret.err = "nil" /\ hist.clean /\ AllRegistered
              \/ /\ ret.err = Unable /\ hist.passes = MaxRetry
                 /\ ~hist.enumOk /\ ~hist.clean)
  /\ [][(hist.ideal /\ hist'.ideal /\ pc = "enumerate" /\ pc' = "loop") =>
         (pidCookie' = pidCookie /\ procCache' = procCache)]_vars
  /\ [][(hist.ideal /\ hist'.ideal /\ pc = "enumerate" /\ pc' # "loop") =>
         /\ pidCookie' = pidCookie /\ procCache' = procCache
         /\ hist'.passes = hist.passes + 1 /\ ~hist'.enumOk
         /\ hist'.before = hist.before
         /\ IF hist.passes + 1 < MaxRetry
              THEN pc' = "enumerate" /\ ret'.op = "snapshot"
              ELSE pc' = "idle" /\ ret'.op = "Snapshot" /\ ret'.err = Unable]_vars
  /\ [][(hist.ideal /\ hist.before /\ pc = "loop" /\ pc' \in {"enumerate", "idle"}) =>
         (pc' = "idle" /\ ret'.op = "Snapshot" /\ ret'.err = "nil")]_vars

(* the first enumeration failed, the second attempt registered both        *)
(* processes and the third, inserting none, ended the call with success    *)
C3_Witness ==
  /\ hist.ideal /\ ~hist.enumOk /\ hist.before /\ hist.passes = 3
  /\ Returns /\ ret.err = "nil"
  /\ DOMAIN pidCookie = {1, 2}

(* C4 as stated: past its setup, Snapshot() succeeds exactly when one of   *)
(* its attempts performed zero insertions, and stops at the first such     *)
(* attempt.                                                                *)
C4_Original ==
  /\ hist.zero => (Returns /\ ret.err = "nil")
  /\ LoopReturns => (ret.err = "nil" <=> hist.zero)

(* C4 amended: past its setup, Snapshot() succeeds exactly when one of its *)
(* first 5 attempts enumerated the processes and performed zero            *)
(* insertions, and it stops at the first such attempt; any other attempt   *)
(* (one that inserted, or whose enumeration failed) is followed by a retry *)
(* while attempts remain, and by the "unable to snapshot" error after the  *)
(* fifth.                                                                  *)
C4_FixedPoint ==
  /\ hist.clean => (Returns /\ ret.err = "nil")
  /\ LoopReturns => (ret.err = "nil" <=> hist.clean)
  /\ (LoopReturns /\ ret.err # "nil") => (ret.err = Unable /\ hist.passes = MaxRetry)
  /\ (ret.op = "snapshot" /\ ret.err = "retry") =>
        (pc = "enumerate" /\ hist.passes < MaxRetry /\ retry = hist.passes)

(* pid 1 inserted in attempt 1, pid 2 in attempt 2, attempt 3 is clean *)
C4_Witness ==
  /\ Returns /\ ret.err = "nil"
  /\ hist.passes = 3 /\ hist.enumOk
  /\ DOMAIN pidCookie = {1, 2}

(* C5 as stated: on every exit path of Snapshot(), setup failures          *)
(* included, the getattr probe has been deactivated exactly once when the  *)
(* call returns.                                                           *)
C5_Original == Returns => (hist.unreg = 1 /\ ~kprobeActive)

(* C5 amended: a Snapshot() call that activated the probe (it returns      *)
(* success or non-convergence) has deactivated it exactly once when it     *)
(* returns; a call that fails in its setup returns before the deferred     *)
(* deactivation is installed and makes no deactivation call, the probe not *)
(* being active; the probe is active only while a Snapshot() call runs.    *)
C5_ProbeLifecycle ==
  /\ LoopReturns => hist.unreg = 1
  /\ (Returns /\ ret.err \in SetupErrors) => hist.unreg = 0
  /\ kprobeActive <=> pc # "idle"
  /\ hist.unreg <= 1

C5_Witness == Returns /\ ret.err = Unable /\ hist.unreg = 1 /\ ~kprobeActive

Chained(pid) == pid \in DOMAIN pidCookie /\ pidCookie[pid] \in DOMAIN procCache
Built(pid) ==
  [PathnameStr |-> DentryPath(procCache[pidCookie[pid]].fileEvent),
   Timestamp |-> ResolveMonotonicTimestamp(procCache[pidCookie[pid]].timestampRaw)]
FromChain(pid) ==
  /\ ret'.ok
  /\ ret'.entry = Built(pid)
  /\ pid \in DOMAIN entryCache'
  /\ entryCache'[pid] = ret'.entry

(* C6 as stated: Resolve(pid) for a pid that has pid_cookie and proc_cache *)
(* entries but no userspace cache entry returns the entry built from the   *)
(* kernel chain and stores it in the userspace cache.                      *)
C6_Original ==
  [][\A pid \in EventPids :
       (ret'.op = "Resolve" /\ ret'.pid = pid /\ pid \notin DOMAIN entryCache /\ Chained(pid))
          => FromChain(pid)]_vars

(* C6 amended: the same, provided the proc_cache value deserializes and    *)
(* the path resolver does not answer its "not found" sentinel (else        *)
(* Resolve returns absent and stores nothing); and a Resolve(pid) for a    *)
(* pid that has a userspace cache entry returns that entry with no         *)
(* kernel-table read and leaves the cache as it is.                        *)
C6_CacheThenFallback ==
  [][\A pid \in EventPids :
       (ret'.op = "Resolve" /\ ret'.pid = pid) =>
          /\ (/\ pid \notin DOMAIN entryCache
              /\ Chained(pid)
              /\ ~procCache[pidCookie[pid]].short
              /\ ret'.dentry # dentryPathKeyNotFound) => FromChain(pid)
          /\ (/\ pid \notin DOMAIN entryCache
              /\ Chained(pid)
              /\ (procCache[pidCookie[pid]].short
                    \/ ret'.dentry = dentryPathKeyNotFound)) =>
               (~ret'.ok /\ entryCache' = entryCache)
          /\ pid \in DOMAIN entryCache =>
               (ret'.ok /\ ret'.entry = entryCache[pid] /\ ret'.reads = 0
                  /\ entryCache' = entryCache)]_vars

C6_Witness ==
  /\ ret.op = "Resolve" /\ ret.ok /\ ret.reads = 2
  /\ entryCache[ret.pid] = ret.entry
  /\ ret.entry = Built(ret.pid)

(* C7: DelEntry(pid) leaves no userspace cache entry and no pid_cookie     *)
(* entry for pid and keeps proc_cache as it is; a Resolve(pid) in a state  *)
(* with neither returns absent after the one failed pid_cookie read and    *)
(* stores nothing, whatever proc_cache still holds.                        *)
C7_DelEntryCleanup ==
  [][\A pid \in EventPids :
       /\ (ret'.op = "DelEntry" /\ ret'.pid = pid) =>
             (pid \notin DOMAIN entryCache' /\ pid \notin DOMAIN pidCookie'
                /\ procCache' = procCache)
       /\ (/\ ret'.op = "Resolve" /\ ret'.pid = pid
           /\ pid \notin DOMAIN entryCache /\ pid \notin DOMAIN pidCookie) =>
             (~ret'.ok /\ ret'.reads = 1 /\ pid \notin DOMAIN entryCache')]_vars

(* Resolve(pid) answered absent while the value the kernel had written for *)
(* pid is still in proc_cache with no pointer to it.                       *)
C7_Witness ==
  /\ ret.op = "Resolve" /\ ~ret.ok /\ ret.reads = 1
  /\ ret.pid \notin DOMAIN pidCookie
  /\ \E c \in DOMAIN procCache :
       /\ procCache[c].timestampRaw = 10 * ret.pid
       /\ \A q \in DOMAIN pidCookie : pidCookie[q] # c

(* C8: idempotent insertion. A per-process step for a pid that pid_cookie  *)
(* already holds returns false and leaves pid_cookie, proc_cache, the      *)
(* userspace cache and the modified flag as they are, at every visit.      *)
C8_Idempotent ==
  [][\A proc \in processes :
       (/\ pc = "loop" /\ proc.Exe # "" /\ proc.Pid \in DOMAIN pidCookie
        /\ processes' = processes \ {proc}) =>
          /\ ret'.op = "snapshotProcess" /\ ret'.pid = proc.Pid /\ ~ret'.ok
          /\ pidCookie' = pidCookie /\ procCache' = procCache
          /\ entryCache' = entryCache /\ inodeNumlower' = inodeNumlower
          /\ cacheModified' = cacheModified /\ pc' = "loop"]_vars

(* the third attempt visits a pid registered two attempts before *)
C8_Witness ==
  /\ ret.op = "snapshotProcess" /\ ret.fail = "exists" /\ ~ret.ok
  /\ hist.passes = 2 /\ ~cacheModified
  /\ ret.pid \in DOMAIN pidCookie

(* C9: skip on expired exe. The step of the loop for a process enumerated  *)
(* without exe path writes neither table nor the userspace cache and does  *)
(* not touch the modified flag; an attempt that ran the per-process step   *)
(* for no unregistered pid converges.                                      *)
C9_SkipExpired ==
  [][/\ \A proc \in processes :
          (pc = "loop" /\ proc.Exe = "" /\ processes' = processes \ {proc}) =>
             /\ pidCookie' = pidCookie /\ procCache' = procCache
             /\ entryCache' = entryCache /\ inodeNumlower' = inodeNumlower
             /\ cacheModified' = cacheModified /\ hist' = hist /\ pc' = "loop"
     /\ (pc = "loop" /\ processes = {} /\ pc' # "loop" /\ ~hist.tried) =>
          (ret'.op = "Snapshot" /\ ret'.err = "nil")]_vars

(* the call converged in its first attempt with an expired process that    *)
(* was never registered                                                    *)
C9_Witness ==
  /\ Returns /\ ret.err = "nil" /\ hist.passes = 1 /\ hist.enumOk
  /\ \E pid \in DOMAIN live :
       live[pid] = "" /\ pid \notin DOMAIN pidCookie /\ pid \notin DOMAIN entryCache

(* C10: soft errors. A per-process step that fails (mount sync, container  *)
(* ID, readlink, stat, numlower, either insert) returns to the loop        *)
(* without setting the modified flag and without ending the call; an       *)
(* attempt that enumerated and inserted nothing makes Snapshot() return    *)
(* success; Snapshot() returns an error only for a setup failure or after  *)
(* 5 attempts none of which converged.                                     *)
C10_SoftErrors ==
  /\ [][/\ (ret'.op = "snapshotProcess" /\ ret'.fail \notin {"", "exists"}) =>
             /\ ~ret'.ok
             /\ cacheModified' = cacheModified
             /\ hist'.inserted = hist.inserted
             /\ pc' = "loop" /\ kprobeActive'
        /\ (pc = "loop" /\ processes = {} /\ pc' # "loop" /\ ~hist.inserted) =>
             (ret'.op = "Snapshot" /\ ret'.err = "nil")]_vars
  /\ [](Returns /\ ret.err # "nil" =>
          \/ ret.err \in SetupErrors
          \/ (ret.err = Unable /\ hist.passes = MaxRetry /\ ~hist.clean))

(* the only process the attempt stepped failed after its readlink, and the *)
(* call returned success                                                   *)
C10_Witness ==
  /\ Returns /\ ret.err = "nil" /\ hist.passes = 1
  /\ \E pid \in DOMAIN live :
       /\ live[pid] # "" /\ pid \notin DOMAIN pidCookie
       /\ pid \in DOMAIN entryCache
       /\ entryCache[pid] = [PathnameStr |-> ExePath(pid), Timestamp |-> 0]

(* C11: no negative caching. A Resolve(pid) that returns absent leaves the *)
(* userspace cache, pid_cookie and proc_cache as they were, and a          *)
(* Resolve(pid) for a pid without userspace entry reads the kernel tables. *)
C11_NoNegativeCaching ==
  [][\A pid \in EventPids :
       (ret'.op = "Resolve" /\ ret'.pid = pid) =>
          /\ ~ret'.ok =>
               /\ entryCache' = entryCache
               /\ pidCookie' = pidCookie /\ procCache' = procCache
               /\ pid \notin DOMAIN entryCache'
               /\ ret'.reads >= 1
          /\ pid \notin DOMAIN entryCache => ret'.reads >= 1]_vars

(* the chain is there, the path resolver answered its sentinel, and        *)
(* nothing was cached for the pid                                          *)
C11_Witness ==
  /\ ret.op = "Resolve" /\ ~ret.ok /\ ret.reads = 2
  /\ ret.dentry = dentryPathKeyNotFound
  /\ Chained(ret.pid)
  /\ ret.pid \notin DOMAIN entryCache

(* C12: AddEntry(pid, e) makes e the userspace entry of pid and changes    *)
(* no other entry and no kernel table; between calls (no Snapshot()        *)
(* running) only AddEntry(pid) and DelEntry(pid) change the entry of a pid *)
(* that has one; Resolve(pid) for a pid with an entry returns it without   *)
(* reading a kernel table.                                                 *)
C12_AddEntryOverwrites ==
  [][\A pid \in EventPids :
       /\ (ret'.op = "AddEntry" /\ ret'.pid = pid) =>
            /\ entryCache' = Put(entryCache, pid, ret'.entry)
            /\ ret'.entry \in InputEntries
            /\ pidCookie' = pidCookie /\ procCache' = procCache
            /\ inodeNumlower' = inodeNumlower
       /\ (/\ pc = "idle" /\ pc' = "idle" /\ pid \in DOMAIN entryCache
           /\ ~(ret'.op \in {"AddEntry", "DelEntry"} /\ ret'.pid = pid)) =>
            (pid \in DOMAIN entryCache' /\ entryCache'[pid] = entryCache[pid])
       /\ (ret'.op = "Resolve" /\ ret'.pid = pid /\ pid \in DOMAIN entryCache) =>
            (ret'.ok /\ ret'.entry = entryCache[pid] /\ ret'.reads = 0)]_vars

(* Resolve(pid) answered the entry an AddEntry stored,                     *)
(* while the kernel chain of the pid describes something else              *)
C12_Witness ==
  /\ ret.op = "Resolve" /\ ret.ok /\ ret.reads = 0
  /\ ret.entry = [PathnameStr |-> "/bin/y", Timestamp |-> 8]
  /\ Chained(ret.pid) /\ ~procCache[pidCookie[ret.pid]].short
  /\ Built(ret.pid) # ret.entry

Provisional(pid) == [PathnameStr |-> ExePath(pid), Timestamp |-> 0]
Created(pid) == pid \notin DOMAIN entryCache /\ pid \in DOMAIN entryCache'
Removed(pid) == pid \in DOMAIN entryCache /\ pid \notin DOMAIN entryCache'
ByEvent(pid) ==
  \/ ret'.op = "AddEntry" /\ ret'.pid = pid
  \/ ret'.op = "Resolve" /\ ret'.pid = pid /\ ret'.ok
ByDelEntry(pid) == ret'.op = "DelEntry" /\ ret'.pid = pid

(* C13 as stated: a userspace entry appears only with AddEntry, with a     *)
(* Resolve that returned an entry, or in a per-process snapshot step that  *)
(* does not return false; it goes away only with DelEntry(pid).            *)
C13_Original ==
  [][\A pid \in EventPids :
       /\ Created(pid) =>
            \/ ByEvent(pid)
            \/ pc = "loop" /\ ~(ret'.op = "snapshotProcess" /\ ~ret'.ok)
       /\ Removed(pid) => ByDelEntry(pid)]_vars

(* C13 amended: a userspace entry appears only with AddEntry, with a       *)
(* Resolve that returned an entry, or in the per-process snapshot step of  *)
(* the pid once the executable link is read, whether the step then returns *)
(* true or false; it goes away only with DelEntry(pid).                    *)
C13_CacheLifecycle ==
  [][\A pid \in EventPids :
       /\ Created(pid) =>
            \/ ByEvent(pid)
            \/ /\ pc = "loop"
               /\ entryCache'[pid] = Provisional(pid)
               /\ \/ pc' = "insertCache" /\ cur'.pid = pid
                  \/ /\ ret'.op = "snapshotProcess" /\ ret'.pid = pid /\ ~ret'.ok
                     /\ ret'.fail \in {"stat", "numlower"}
       /\ Removed(pid) => ByDelEntry(pid)]_vars

(* the step for the pid returned true and the entry it memoized is there   *)
C13_Witness ==
  /\ ret.op = "snapshotProcess" /\ ret.ok
  /\ ret.pid \in DOMAIN entryCache
  /\ entryCache[ret.pid] = Provisional(ret.pid)
  /\ hist.passes = 0

(* C14: Start() returns success exactly when proc_cache and pid_cookie are *)
(* both registered, and then both handles are bound.                       *)
C14_StartBindsBoth ==
  ret.op = "Start" =>
    /\ ret.ok <=> {"proc_cache", "pid_cookie"} \subseteq tables
    /\ ret.ok => (procCacheMap /\ pidCookieMap)
    /\ procCacheMap <=> "proc_cache" \in tables

(* proc_cache is registered, pid_cookie is not: Start() failed with the    *)
(* first handle bound                                                      *)
C14_Witness ==
  /\ ret.op = "Start" /\ ~ret.ok
  /\ "proc_cache" \in tables /\ "pid_cookie" \notin tables
  /\ procCacheMap /\ ~pidCookieMap

PastReadlink(pid) ==
  /\ pc = "loop"
  /\ \/ pc' = "insertCache" /\ cur'.pid = pid
     \/ /\ ret'.op = "snapshotProcess" /\ ret'.pid = pid
        /\ ret'.fail \in {"stat", "numlower"}
Memoized(pid) == pid \in DOMAIN entryCache' /\ entryCache'[pid] = Provisional(pid)

(* C15: the per-process step that got past the read of the executable link *)
(* has stored the entry with that path for the pid; the entry is there     *)
(* when the step returns false for a stat, numlower or insert failure; it  *)
(* stays for the rest of the Snapshot() call; Resolve(pid) for a pid with  *)
(* an entry returns that entry.                                            *)
C15_ProvisionalEntry ==
  [][\A pid \in EventPids :
       /\ PastReadlink(pid) => Memoized(pid)
       /\ (/\ ret'.op = "snapshotProcess" /\ ret'.pid = pid
           /\ ret'.fail \in {"stat", "numlower", "cache", "cookie"}) =>
            (~ret'.ok /\ Memoized(pid))
       /\ (/\ pc # "idle" /\ pid \in DOMAIN entryCache
           /\ entryCache[pid] = Provisional(pid)) => Memoized(pid)
       /\ (ret'.op = "Resolve" /\ ret'.pid = pid /\ pid \in DOMAIN entryCache) =>
            (ret'.ok /\ ret'.entry = entryCache[pid])]_vars

(* Resolve(pid) answered the provisional entry of a pid whose step failed: *)
(* the pid has no pid_cookie entry                                         *)
C15_Witness ==
  /\ ret.op = "Resolve" /\ ret.ok /\ ret.reads = 0
  /\ ret.entry = Provisional(ret.pid)
  /\ ret.pid \notin DOMAIN pidCookie

StepReturns == ret'.op = "snapshotProcess"
WroteCache == pc = "insertCookie" /\ cur.cookie \in DOMAIN procCache

(* C16: the per-process step returns true exactly when the call wrote a    *)
(* new proc_cache entry, and the attempt is then counted as modified. This *)
(* is also what the doc comment of line 153 promises. The code does not    *)
(* keep it: with procCacheMap.SetP done at line 221 and pidCookieMap.SetP  *)
(* failing at line 225 the step returns false at line 227 and the attempt  *)
(* is not marked modified.                                                 *)
C16_TrueIffCacheWritten ==
  [][StepReturns => /\ ret'.ok <=> WroteCache
                    /\ ret'.ok => cacheModified']_vars

Without(after, before, k) ==
  /\ DOMAIN after = DOMAIN before \ {k}
  /\ \A x \in DOMAIN after : after[x] = before[x]

(* C17: the frame of DelEntry(pid). The userspace cache and pid_cookie     *)
(* lose the key pid and nothing else, proc_cache and inode_numlower are    *)
(* unchanged, and for a pid with no entry all four are unchanged.          *)
C17_DelEntryFrame ==
  [][\A pid \in EventPids :
       ByDelEntry(pid) =>
          /\ Without(entryCache', entryCache, pid)
          /\ Without(pidCookie', pidCookie, pid)
          /\ procCache' = procCache
          /\ inodeNumlower' = inodeNumlower
          /\ (pid \notin DOMAIN entryCache /\ pid \notin DOMAIN pidCookie) =>
               (entryCache' = entryCache /\ pidCookie' = pidCookie)]_vars

(* DelEntry(pid) ran while another pid has both its entries; the value     *)
(* behind the pid's former cookie and the numlower table are still there   *)
C17_Witness ==
  /\ ret.op = "DelEntry"
  /\ \E q \in DOMAIN entryCache : q # ret.pid /\ q \in DOMAIN pidCookie
  /\ \E c \in DOMAIN procCache :
       /\ procCache[c].timestampRaw = 10 * ret.pid
       /\ \A q \in DOMAIN pidCookie : pidCookie[q] # c
  /\ DOMAIN inodeNumlower # {}

(* a step of the running Snapshot() call, as against a step of the kernel  *)
(* side or of /proc                                                        *)
ResolverStep == pc # "idle" /\ (pc' # pc \/ processes' # processes)
Kept(after, before) ==
  \A x \in DOMAIN before : x \in DOMAIN after /\ after[x] = before[x]

(* C18: a snapshot pass only adds kernel-table entries. No step of a       *)
(* running Snapshot() call removes or replaces a pid_cookie or proc_cache  *)
(* entry that exists when the step is taken, the entry a kernel-side       *)
(* writer inserted after the idempotency check included.                   *)
C18_OnlyAdds ==
  [][ResolverStep => (Kept(pidCookie', pidCookie) /\ Kept(procCache', procCache))]_vars

Pointed(m, c) == \E q \in DOMAIN m : m[q] = c
CacheInsertFailed ==
  /\ ~ret'.ok
  /\ pidCookie' = pidCookie /\ procCache' = procCache
  /\ cur.cookie \notin DOMAIN procCache'
CookieInsertFailed ==
  /\ ~ret'.ok
  /\ pidCookie' = pidCookie /\ procCache' = procCache
  /\ cur.cookie \in DOMAIN procCache' /\ procCache'[cur.cookie] = cur.entry
  /\ ~Pointed(pidCookie', cur.cookie)
FreshCookie ==
  (pc = "loop" /\ pc' = "insertCache") =>
     (cur'.cookie \notin DOMAIN procCache /\ ~Pointed(pidCookie, cur'.cookie))

(* C19 as stated: no rollback in the publish step. A failed proc_cache     *)
(* insert leaves pid_cookie unwritten; a failed pid_cookie insert leaves   *)
(* the new proc_cache entry in place with no pointer to it, the step       *)
(* returns false and pid_cookie has no entry for the pid; a pid attempted  *)
(* anew gets a cookie not used before.                                     *)
C19_Original ==
  [][/\ (StepReturns /\ ret'.fail = "cache") => CacheInsertFailed
     /\ (StepReturns /\ ret'.fail = "cookie") =>
          (CookieInsertFailed /\ cur.pid \notin DOMAIN pidCookie')
     /\ FreshCookie]_vars

(* C19 amended: the same, except that after the failed pid_cookie insert   *)
(* the step has written no pid_cookie entry: the pid has an entry only if  *)
(* the kernel side wrote one meanwhile, and it points elsewhere; a step    *)
(* for a pid without pid_cookie entry is never answered "already           *)
(* registered".                                                            *)
C19_NoRollback ==
  [][/\ (StepReturns /\ ret'.fail = "cache") => CacheInsertFailed
     /\ (StepReturns /\ ret'.fail = "cookie") =>
          /\ CookieInsertFailed
          /\ cur.pid \notin DOMAIN pidCookie => cur.pid \notin DOMAIN pidCookie'
     /\ (StepReturns /\ ret'.fail = "exists") => ret'.pid \in DOMAIN pidCookie
     /\ FreshCookie]_vars

(* the pid was registered at a second try: the entry of the first try is   *)
(* still in proc_cache under another cookie, with no pointer to it         *)
C19_Witness ==
  /\ ret.op = "snapshotProcess" /\ ret.ok
  /\ ret.pid \in DOMAIN pidCookie
  /\ \E c \in DOMAIN procCache :
       /\ c # pidCookie[ret.pid]
       /\ procCache[c] = SnapshotEntry(ret.pid)
       /\ ~Pointed(pidCookie, c)

(* C20: mount sync. A step whose SyncCache(pid) answered "no such process" *)
(* is not ended by it, and a step whose SyncCache(pid) answered another    *)
(* error returns false with the userspace cache, pid_cookie, proc_cache    *)
(* and inode_numlower as they were.                                        *)
C20_SyncCacheErrors ==
  [][StepReturns =>
       /\ ret'.sync = "err" <=> ret'.fail = "sync"
       /\ ret'.fail = "sync" =>
            /\ ~ret'.ok /\ pc = "loop"
            /\ entryCache' = entryCache
            /\ pidCookie' = pidCookie /\ procCache' = procCache
            /\ inodeNumlower' = inodeNumlower
            /\ cacheModified' = cacheModified
       /\ ret'.sync = "enoent" => ret'.fail # "sync"]_vars

(* SyncCache(pid) answered "no such process" and the step registered the   *)
(* pid and returned true                                                   *)
C20_Witness ==
  /\ ret.op = "snapshotProcess" /\ ret.ok /\ ret.sync = "enoent"
  /\ ret.pid \in DOMAIN pidCookie
  /\ pidCookie[ret.pid] \in DOMAIN procCache
  /\ procCache[pidCookie[ret.pid]] = SnapshotEntry(ret.pid)
  /\ cacheModified

====
